---- MODULE Spec2Model ----
(***************************************************************************)
(* State-machine model of the SignContext single-page client (src/App.tsx). *)
(*                                                                         *)
(* Text that the code inspects (response text, error descriptions, chat    *)
(* text) is a sequence of tokens; timestamps are sequences of UTF-16 code  *)
(* units so that the JavaScript string comparison can be computed; numbers *)
(* in [0,1] (confidence, threshold) are integers in hundredths.            *)
(***************************************************************************)
EXTENDS Integers, Sequences, FiniteSets, TLC

(***************************************************************************)
(* Bounds of the model.                                                    *)
(***************************************************************************)
MaxRequests == 2
MaxLog == 4
MaxFiles == 2
MaxSigns == 2
MaxTranscript == 2

(***************************************************************************)
(* Strings.                                                                *)
(***************************************************************************)
WhiteSpace == {" ", "\n"}

RECURSIVE TrimStart(_)
TrimStart(s) ==
  IF s # <<>> /\ s[1] \in WhiteSpace THEN TrimStart(Tail(s)) ELSE s

RECURSIVE TrimEnd(_)
TrimEnd(s) ==
  IF s # <<>> /\ s[Len(s)] \in WhiteSpace
  THEN TrimEnd(SubSeq(s, 1, Len(s) - 1))
  ELSE s

\* String.prototype.trim
Trim(s) == TrimEnd(TrimStart(s))

\* String.prototype.startsWith
StartsWith(s, p) == Len(s) >= Len(p) /\ SubSeq(s, 1, Len(p)) = p

EndsWith(s, p) ==
  Len(s) >= Len(p) /\ SubSeq(s, Len(s) - Len(p) + 1, Len(s)) = p

DropFirst(s, n) == SubSeq(s, n + 1, Len(s))

DropLast(s, n) == SubSeq(s, 1, Len(s) - n)

\* String.prototype.includes, at the granularity of tokens
Includes(s, w) == \E i \in 1..Len(s) : s[i] = w

RECURSIVE StrGtShortlex(_, _)
\* a comparison that takes the longer string for the greater one
StrGtShortlex(a, b) ==
  IF Len(a) # Len(b) THEN Len(a) > Len(b)
  ELSE IF a = <<>> THEN FALSE
  ELSE IF a[1] # b[1] THEN a[1] > b[1]
  ELSE StrGtShortlex(Tail(a), Tail(b))

RECURSIVE StrGt(_, _)

\* a > b on JavaScript strings: lexicographic on code units, a proper
\* prefix being the smaller
StrGt(a, b) ==
  IF a = <<>> THEN FALSE
  ELSE IF b = <<>> THEN TRUE
  ELSE IF a[1] # b[1] THEN a[1] > b[1]
  ELSE StrGt(Tail(a), Tail(b))

(***************************************************************************)
(* Fence stripping of the analysis response (handleAnalyze).               *)
(***************************************************************************)
\* the backtick character
BackTick == "BT"

Fence == <<BackTick, BackTick, BackTick>>

JsonTag == <<"j", "s", "o", "n">>

\* a pattern without the optional json annotation
StripLeadingFenceNoTag(s) ==
  IF ~StartsWith(s, Fence) THEN s
  ELSE LET a == DropFirst(s, 3)
       IN  IF StartsWith(a, <<"\n">>) THEN DropFirst(a, 1) ELSE a

\* cleanText.replace(/^FENCE(json)?\n?/, ''), FENCE being three backticks
StripLeadingFence(s) ==
  IF ~StartsWith(s, Fence) THEN s
  ELSE LET a == DropFirst(s, 3)
           b == IF StartsWith(a, JsonTag) THEN DropFirst(a, 4) ELSE a
       IN  IF StartsWith(b, <<"\n">>) THEN DropFirst(b, 1) ELSE b

\* .replace(/\n?FENCE$/, '')
StripTrailingFence(s) ==
  IF ~EndsWith(s, Fence) THEN s
  ELSE LET a == DropLast(s, 3)
       IN  IF EndsWith(a, <<"\n">>) THEN DropLast(a, 1) ELSE a

\* lines 167-170: trim, then strip the fences when the text starts with one
CleanText(text) ==
  LET t == Trim(text)
  IN  IF StartsWith(t, Fence)
      THEN StripTrailingFence(StripLeadingFence(t))
      ELSE t

(***************************************************************************)
(* JSON values (src/unnamed/part_001) and JSON.parse.                      *)
(*                                                                         *)
(* A value is null, an array or an object. An object lists the fields it   *)
(* has; a field it lacks reads as undefined.                               *)
(***************************************************************************)
Null == [t |-> "null"]

\* the array []
EmptyArray == [t |-> "array"]

JsObject(has, signs, transcript, context) ==
  [t |-> "object", has |-> has, signs |-> signs,
   transcript |-> transcript, context |-> context]

AllFields == {"signs", "transcript", "context"}

\* AnalysisResult
AnalysisResult(signs, transcript) ==
  JsObject(AllFields, signs, transcript, "ctx")

\* SignDetection; confidence in hundredths
SignDetection(ts, gesture, confidence) ==
  [timestamp |-> ts, gesture |-> gesture, meaning |-> "m",
   confidence |-> confidence]

\* TranscriptSegment
TranscriptSegment(ts, text) ==
  [timestamp |-> ts, speaker |-> "A", text |-> text]

\* code unit of the decimal digit d; the colon follows the digit 9
DigitCode(d) == 48 + d

ColonCode == DigitCode(10)

RECURSIVE Decimal(_)
Decimal(n) ==
  IF n < 10 THEN <<DigitCode(n)>>
  ELSE Decimal(n \div 10) \o <<DigitCode(n % 10)>>

Pad2(n) == IF n < 10 THEN <<DigitCode(0), DigitCode(n)>> ELSE Decimal(n)

\* the "MM:SS" text the prompt asks for, zero-padded to two digits
MMSS(m, sec) == Pad2(m) \o <<ColonCode>> \o Pad2(sec)

\* JavaScript truthiness of a stored value
Truthy(v) == v.t # "null"

\* result?.signs || []
SignsOf(v) ==
  IF v.t = "object" /\ "signs" \in v.has THEN v.signs ELSE <<>>

\* result?.transcript || []
TranscriptOf(v) ==
  IF v.t = "object" /\ "transcript" \in v.has THEN v.transcript ELSE <<>>

(***************************************************************************)
(* The derived timeline (lines 246-251).                                   *)
(***************************************************************************)
\* a filter that drops a confidence on the threshold
KeepsStrict(s, threshold) == s.confidence > threshold

\* s.confidence >= confidenceThreshold
Keeps(s, threshold) == s.confidence >= threshold

\* filteredSigns
FilteredSigns(v, threshold) ==
  SelectSeq(SignsOf(v), LAMBDA s : Keeps(s, threshold))

TagTranscript(x) ==
  [timestamp |-> x.timestamp, speaker |-> x.speaker, text |-> x.text,
   type |-> "transcript"]

TagSign(x) ==
  [timestamp |-> x.timestamp, gesture |-> x.gesture, meaning |-> x.meaning,
   confidence |-> x.confidence, type |-> "sign"]

\* a comparator with its operands swapped
CompareReversed(a, b) == IF StrGt(b.timestamp, a.timestamp) THEN 1 ELSE -1

\* the comparator (a, b) => (a.timestamp > b.timestamp ? 1 : -1)
Compare(a, b) == IF StrGt(a.timestamp, b.timestamp) THEN 1 ELSE -1

\* Array.prototype.sort as an insertion sort driven by the comparator: each
\* element goes before the first element it compares below. The comparator
\* never answers 0, so the order of items with equal timestamps is left to
\* the engine; here an item goes before the equal items already placed.
RECURSIVE InsertSorted(_, _)
InsertSorted(x, sorted) ==
  IF sorted = <<>> THEN <<x>>
  ELSE IF Compare(x, sorted[1]) < 0 THEN <<x>> \o sorted
  ELSE <<sorted[1]>> \o InsertSorted(x, Tail(sorted))

RECURSIVE SortItems(_)
SortItems(items) ==
  IF items = <<>> THEN <<>>
  ELSE InsertSorted(items[Len(items)], SortItems(DropLast(items, 1)))

\* a merge that loses the transcript
MergedNoTranscript(v, threshold) ==
  LET fs == FilteredSigns(v, threshold)
  IN  [i \in 1..Len(fs) |-> TagSign(fs[i])]

\* the spread of both tagged lists, before the sort
Merged(v, threshold) ==
  LET tr == TranscriptOf(v)
      fs == FilteredSigns(v, threshold)
  IN  [i \in 1..Len(tr) |-> TagTranscript(tr[i])]
        \o [i \in 1..Len(fs) |-> TagSign(fs[i])]

\* timelineItems
TimelineItems(v, threshold) == SortItems(Merged(v, threshold))

(***************************************************************************)
(* What the external model may answer to an analysis request.  The body of *)
(* a response is one atom standing for a complete JSON text; JSON.parse    *)
(* accepts an atom surrounded by JSON white space and nothing else.        *)
(***************************************************************************)
\* the result of the end-to-end scenario
E2EResult ==
  AnalysisResult(<<SignDetection(MMSS(0, 10), "Wave", 90)>>,
                 <<TranscriptSegment(MMSS(0, 5), "Hi")>>)

\* a result with equal timestamps and a confidence on the default threshold
TieResult ==
  AnalysisResult(<<SignDetection(MMSS(0, 5), "Point", 70),
                   SignDetection(MMSS(0, 5), "Nod", 50)>>,
                 <<TranscriptSegment(MMSS(0, 5), "Yes")>>)

\* {"signs": []}: parseable, but not an AnalysisResult
PartialObject == JsObject({"signs"}, <<>>, <<>>, "")

AtomNames == {"E2E", "TIE", "NULL", "ARRAY", "PARTIAL"}

AtomValue(a) ==
  CASE a = "E2E" -> E2EResult
    [] a = "TIE" -> TieResult
    [] a = "NULL" -> Null
    [] a = "ARRAY" -> EmptyArray
    [] a = "PARTIAL" -> PartialObject

\* JSON.parse: the value, or a SyntaxError
JsonParse(s) ==
  LET b == Trim(s)
  IN  IF Len(b) = 1 /\ b[1] \in AtomNames
      THEN [ok |-> TRUE, value |-> AtomValue(b[1])]
      ELSE [ok |-> FALSE, value |-> Null]

\* a response body wrapped in a fenced code block
Fenced(lead, body, trail) == Fence \o lead \o body \o trail \o Fence

\* a text that is no JSON: a truncated answer
Garbage == <<"{", "x">>

\* response.text of an analysis call; <<>> is the absent or empty text
AnalysisTexts ==
  { <<>>, <<"E2E">>, <<"NULL">>, <<"PARTIAL">>, Garbage,
    Fenced(JsonTag \o <<"\n">>, <<"E2E">>, <<"\n">>) }

(***************************************************************************)
(* Messages the code builds.  A message is a sequence of words, so that    *)
(* includes('429'), includes('quota') and includes('Quota') are decided on *)
(* the words.                                                              *)
(***************************************************************************)
NoError == <<>>

\* line 35
MissingKeyMsg == <<"Missing", "API", "Key.">>

\* line 177
MalformedMsg == <<"Analysis", "result", "was", "incomplete.">>

\* line 180
EmptyResponseMsg == <<"No", "response", "generated.">>

\* line 185
QuotaBanner == <<"Quota", "Exceeded", "(", "429", ")", ".">>

\* line 187
FailedMsg == <<"Failed", "to", "analyze", "media.">>

\* line 230
NoReplyText == <<"I", "couldn't", "generate", "a", "response.">>

\* line 238
ChatQuotaText == <<"Error:", "Quota", "exceeded.">>

\* line 239
ChatFailedText == <<"Error:", "Could", "not", "process", "request.">>

\* err.message of a failed generateContent call; <<>> is an error without a
\* message
TransportMessages ==
  { <<>>, <<"Network", "error">>, <<"got", "status:", "429">> }

WideTransportMessages ==
  TransportMessages \cup
  { <<"Resource", "quota", "exhausted">>, <<"Quota", "limit", "reached">> }

\* err.message?.includes('429') || err.message?.includes('quota')
IsQuota(msg) == Includes(msg, "429") \/ Includes(msg, "quota")

\* lines 184-188: the banner for a caught error
BannerFor(msg) ==
  IF IsQuota(msg) THEN QuotaBanner
  ELSE IF msg # <<>> THEN msg ELSE FailedMsg

\* lines 237-239: the chat text for a caught error
ChatErrorText(msg) == IF IsQuota(msg) THEN ChatQuotaText ELSE ChatFailedText

ChatMessage(role, text) == [role |-> role, text |-> text]

\* what the user may type into the chat input
ChatInputs == { <<>>, <<" ">>, <<"why?">> }

\* suggestedQuestions (one of them)
SuggestedQuestions == { <<"mood?">> }

\* response.text of a chat call
ChatTexts == { <<>>, <<"answer">> }

\* credentials
Keys == {"", "userkey"}

EnvKeys == {"", "envkey"}

\* what the slider may hand to the handler, in hundredths
Thresholds == {50, 95}

WideThresholds == {0, 50, 70, 90, 95, 100}

(***************************************************************************)
(* State (lines 6-22).  file is 0 when no file is selected and otherwise   *)
(* the number of the File object selected; tasks holds one record per      *)
(* invocation of handleAnalyze or handleSendMessage that is suspended at   *)
(* an await, with its position and the values it captured; requests counts *)
(* the generateContent calls issued.                                       *)
(***************************************************************************)
VARIABLES file, analyzing, result, chatHistory, chatInput,
          confidenceThreshold, error, customApiKey, storedKey, envKey,
          tasks, requests

vars == <<file, analyzing, result, chatHistory, chatInput,
          confidenceThreshold, error, customApiKey, storedKey, envKey,
          tasks, requests>>

NoFile == 0

\* useState(0.7)
DefaultThreshold == 70

\* localStorage without and with an item under 'gemini_api_key'
NoItem == [present |-> FALSE, value |-> ""]

Item(k) == [present |-> TRUE, value |-> k]

\* localStorage.getItem('gemini_api_key') || ''
StoredOrEmpty(item) == IF item.present THEN item.value ELSE ""

\* a resolution that prefers the environment's key
EffectiveKeyEnvFirst(custom, env) == IF env # "" THEN env ELSE custom

\* customApiKey || envKey
EffectiveKey(custom, env) == IF custom # "" THEN custom ELSE env

\* a suspended invocation: awaiting fileToGenerativePart ("encoding") or
\* awaiting generateContent ("calling")
Task(kind, key, userText) ==
  [kind |-> kind, pc |-> "encoding", file |-> file, apiKey |-> key,
   userMsg |-> userText]

Remove(seq, i) == SubSeq(seq, 1, i - 1) \o SubSeq(seq, i + 1, Len(seq))

NumEncoding == Cardinality({i \in 1..Len(tasks) : tasks[i].pc = "encoding"})

NumChat == Cardinality({i \in 1..Len(tasks) : tasks[i].kind = "chat"})

\* the model explores runs that issue at most MaxRequests requests and
\* whose log holds at most MaxLog messages
MayStart == requests + NumEncoding < MaxRequests

MayStartChat == MayStart /\ Len(chatHistory) + NumChat + 2 <= MaxLog

Init ==
  /\ file = NoFile
  /\ analyzing = FALSE
  /\ result = Null
  /\ chatHistory = <<>>
  /\ chatInput = <<>>
  /\ confidenceThreshold = DefaultThreshold
  /\ error = NoError
  /\ storedKey \in {NoItem} \cup {Item(k) : k \in Keys \ {""}}
  /\ customApiKey = StoredOrEmpty(storedKey)
  /\ envKey \in EnvKeys
  /\ tasks = <<>>
  /\ requests = 0

(***************************************************************************)
(* Key management and file selection.                                      *)
(***************************************************************************)
\* handleSaveKey, tempKey being what the user typed
HandleSaveKey(tempKey) ==
  /\ customApiKey' = tempKey
  /\ storedKey' = Item(tempKey)
  /\ error' = NoError
  /\ UNCHANGED <<file, analyzing, result, chatHistory, chatInput,
                 confidenceThreshold, envKey, tasks, requests>>

\* handleClearKey; the button is rendered when customApiKey is not empty
HandleClearKey ==
  /\ customApiKey # ""
  /\ customApiKey' = ""
  /\ storedKey' = NoItem
  /\ UNCHANGED <<file, analyzing, result, chatHistory, chatInput,
                 confidenceThreshold, error, envKey, tasks, requests>>

\* handleFileUpload with a file chosen: a new File object
HandleFileUpload ==
  /\ file < MaxFiles
  /\ file' = file + 1
  /\ result' = Null
  /\ chatHistory' = <<>>
  /\ error' = NoError
  /\ UNCHANGED <<analyzing, chatInput, confidenceThreshold, customApiKey,
                 storedKey, envKey, tasks, requests>>

\* the slider's onChange; the slider is rendered when result is truthy
SetConfidenceThreshold(t) ==
  /\ Truthy(result)
  /\ confidenceThreshold' = t
  /\ UNCHANGED <<file, analyzing, result, chatHistory, chatInput, error,
                 customApiKey, storedKey, envKey, tasks, requests>>

\* the chat input's onChange
SetChatInput(text) ==
  /\ text # chatInput
  /\ chatInput' = text
  /\ UNCHANGED <<file, analyzing, result, chatHistory,
                 confidenceThreshold, error, customApiKey, storedKey, envKey,
                 tasks, requests>>

(***************************************************************************)
(* handleAnalyze (lines 83-192) and handleSendMessage (lines 194-244).     *)
(* Each runs to its first await in one step; the encoding of the file and  *)
(* the call to the model then resolve or reject in later steps, each of    *)
(* which runs the handler to its next await or to its end.                 *)
(***************************************************************************)
\* a client built without looking at the key
GetAiClientNeverThrows(key) == FALSE

\* getAiClient throws when no key is effective (lines 34-36)
GetAiClientThrows(key) == key = ""

\* the Analyze button's onClick; the button is rendered when a file is
\* selected and disabled while analyzing
HandleAnalyze ==
  /\ file # NoFile
  /\ ~analyzing
  /\ LET key == EffectiveKey(customApiKey, envKey)
     IN  IF GetAiClientThrows(key)
         THEN /\ analyzing' = FALSE
              /\ error' = BannerFor(MissingKeyMsg)
              /\ tasks' = tasks
         ELSE /\ MayStart
              /\ analyzing' = TRUE
              /\ error' = NoError
              /\ tasks' = Append(tasks, Task("analyze", key, <<>>))
  /\ UNCHANGED <<file, result, chatHistory, chatInput, confidenceThreshold,
                 customApiKey, storedKey, envKey, requests>>

\* a handler that builds the client before it appends the user's message
HandleSendMessageClientFirst(textOverride) ==
  LET textToSend == IF textOverride # <<>> THEN textOverride ELSE chatInput
      userMsg == ChatMessage("user", textToSend)
      key == EffectiveKey(customApiKey, envKey)
  IN  /\ textOverride # <<>> => chatHistory = <<>>
      /\ Trim(textToSend) # <<>>
      /\ file # NoFile
      /\ MayStartChat
      /\ chatInput' = <<>>
      /\ IF GetAiClientThrows(key)
         THEN /\ chatHistory' =
                   Append(chatHistory,
                          ChatMessage("model", ChatErrorText(MissingKeyMsg)))
              /\ tasks' = tasks
         ELSE /\ chatHistory' = Append(chatHistory, userMsg)
              /\ tasks' = Append(tasks, Task("chat", key, textToSend))
      /\ UNCHANGED <<file, analyzing, result, confidenceThreshold, error,
                     customApiKey, storedKey, envKey, requests>>

\* handleSendMessage(textOverride); a suggested question is offered while
\* the log is empty, <<>> is the call without an override
HandleSendMessage(textOverride) ==
  LET textToSend == IF textOverride # <<>> THEN textOverride ELSE chatInput
      userMsg == ChatMessage("user", textToSend)
      key == EffectiveKey(customApiKey, envKey)
  IN  /\ textOverride # <<>> => chatHistory = <<>>
      /\ Trim(textToSend) # <<>>
      /\ file # NoFile
      /\ MayStartChat
      /\ chatInput' = <<>>
      /\ IF GetAiClientThrows(key)
         THEN /\ chatHistory' = chatHistory \o
                   <<userMsg,
                     ChatMessage("model", ChatErrorText(MissingKeyMsg))>>
              /\ tasks' = tasks
         ELSE /\ chatHistory' = Append(chatHistory, userMsg)
              /\ tasks' = Append(tasks, Task("chat", key, textToSend))
      /\ UNCHANGED <<file, analyzing, result, confidenceThreshold, error,
                     customApiKey, storedKey, envKey, requests>>

\* fileToGenerativePart resolves and generateContent is called
EncodeDone(i) ==
  /\ tasks[i].pc = "encoding"
  /\ tasks' = [tasks EXCEPT ![i].pc = "calling"]
  /\ requests' = requests + 1
  /\ UNCHANGED <<file, analyzing, result, chatHistory, chatInput,
                 confidenceThreshold, error, customApiKey, storedKey, envKey>>

\* a catch block without the finally block after it
AnalyzeCatchNoFinally(i, msg) ==
  /\ error' = BannerFor(msg)
  /\ tasks' = Remove(tasks, i)
  /\ UNCHANGED <<file, analyzing, result, chatHistory, chatInput,
                 confidenceThreshold, customApiKey, storedKey, envKey,
                 requests>>

\* a catch block that also discards the stored result
AnalyzeCatchClearing(i, msg) ==
  /\ error' = BannerFor(msg)
  /\ analyzing' = FALSE
  /\ result' = Null
  /\ tasks' = Remove(tasks, i)
  /\ UNCHANGED <<file, chatHistory, chatInput, confidenceThreshold,
                 customApiKey, storedKey, envKey, requests>>

\* the catch and finally blocks of handleAnalyze (lines 182-191)
AnalyzeCatch(i, msg) ==
  /\ error' = BannerFor(msg)
  /\ analyzing' = FALSE
  /\ tasks' = Remove(tasks, i)
  /\ UNCHANGED <<file, result, chatHistory, chatInput, confidenceThreshold,
                 customApiKey, storedKey, envKey, requests>>

\* a catch block that swallows the failure
ChatCatchSilent(i, msg) ==
  /\ tasks' = Remove(tasks, i)
  /\ UNCHANGED <<file, analyzing, result, chatHistory, chatInput,
                 confidenceThreshold, error, customApiKey, storedKey, envKey,
                 requests>>

\* a catch block that also reports the failure in the analysis banner
ChatCatchBanner(i, msg) ==
  /\ chatHistory' =
       Append(chatHistory, ChatMessage("model", ChatErrorText(msg)))
  /\ error' = BannerFor(msg)
  /\ tasks' = Remove(tasks, i)
  /\ UNCHANGED <<file, analyzing, result, chatInput, confidenceThreshold,
                 customApiKey, storedKey, envKey, requests>>

\* the catch block of handleSendMessage (lines 235-243)
ChatCatch(i, msg) ==
  /\ chatHistory' =
       Append(chatHistory, ChatMessage("model", ChatErrorText(msg)))
  /\ tasks' = Remove(tasks, i)
  /\ UNCHANGED <<file, analyzing, result, chatInput, confidenceThreshold,
                 error, customApiKey, storedKey, envKey, requests>>

\* fileToGenerativePart rejects (reader.onerror): the error is an event
\* without a message
EncodeFail(i) ==
  /\ tasks[i].pc = "encoding"
  /\ IF tasks[i].kind = "analyze"
     THEN AnalyzeCatch(i, <<>>)
     ELSE ChatCatch(i, <<>>)

\* generateContent rejects with an error whose message is msg
CallFail(i, msg) ==
  /\ tasks[i].pc = "calling"
  /\ IF tasks[i].kind = "analyze"
     THEN AnalyzeCatch(i, msg)
     ELSE ChatCatch(i, msg)

\* lines 172-174: setResult(parsedResult), then the finally block
StoreResult(i, value) ==
  /\ result' = value
  /\ analyzing' = FALSE
  /\ tasks' = Remove(tasks, i)
  /\ UNCHANGED <<file, chatHistory, chatInput, confidenceThreshold, error,
                 customApiKey, storedKey, envKey, requests>>

\* a handler that stores an empty result when the text does not parse
AnalyzeResponseDefaulting(i, text) ==
  /\ tasks[i].pc = "calling"
  /\ tasks[i].kind = "analyze"
  /\ IF text = <<>>
     THEN AnalyzeCatch(i, EmptyResponseMsg)
     ELSE LET parsed == JsonParse(CleanText(text))
          IN  StoreResult(i, IF parsed.ok THEN parsed.value
                                ELSE AnalysisResult(<<>>, <<>>))

\* generateContent of an analysis resolves with response.text = text
\* (lines 165-181)
AnalyzeResponse(i, text) ==
  /\ tasks[i].pc = "calling"
  /\ tasks[i].kind = "analyze"
  /\ IF text = <<>>
     THEN AnalyzeCatch(i, EmptyResponseMsg)
     ELSE LET parsed == JsonParse(CleanText(text))
          IN  IF parsed.ok
              THEN StoreResult(i, parsed.value)
              ELSE AnalyzeCatch(i, MalformedMsg)

\* a handler that puts the reply at the head of the log
ChatResponseNewestFirst(i, text) ==
  /\ tasks[i].pc = "calling"
  /\ tasks[i].kind = "chat"
  /\ chatHistory' =
       <<ChatMessage("model", IF text # <<>> THEN text ELSE NoReplyText)>>
         \o chatHistory
  /\ tasks' = Remove(tasks, i)
  /\ UNCHANGED <<file, analyzing, result, chatInput, confidenceThreshold,
                 error, customApiKey, storedKey, envKey, requests>>

\* generateContent of a chat turn resolves with response.text = text
\* (lines 228-234)
ChatResponse(i, text) ==
  /\ tasks[i].pc = "calling"
  /\ tasks[i].kind = "chat"
  /\ chatHistory' =
       Append(chatHistory,
              ChatMessage("model", IF text # <<>> THEN text ELSE NoReplyText))
  /\ tasks' = Remove(tasks, i)
  /\ UNCHANGED <<file, analyzing, result, chatInput, confidenceThreshold,
                 error, customApiKey, storedKey, envKey, requests>>

Next ==
  \/ \E k \in Keys : HandleSaveKey(k)
  \/ HandleClearKey
  \/ HandleFileUpload
  \/ \E t \in Thresholds : SetConfidenceThreshold(t)
  \/ \E text \in ChatInputs : SetChatInput(text)
  \/ HandleAnalyze
  \/ \E q \in SuggestedQuestions \cup {<<>>} : HandleSendMessage(q)
  \/ \E i \in 1..Len(tasks) : EncodeDone(i)
  \/ \E i \in 1..Len(tasks) : EncodeFail(i)
  \/ \E i \in 1..Len(tasks) : \E msg \in TransportMessages : CallFail(i, msg)
  \/ \E i \in 1..Len(tasks) : \E text \in AnalysisTexts :
       AnalyzeResponse(i, text)
  \/ \E i \in 1..Len(tasks) : \E text \in ChatTexts : ChatResponse(i, text)

Spec == Init /\ [][Next]_vars

(***************************************************************************)
(* The timeline as a function of the stored result and the threshold: a    *)
(* specification that starts from any result built from small pools of     *)
(* signs and transcript segments and moves the slider.                     *)
(***************************************************************************)
SeqsUpTo(S, n) == UNION {[1..k -> S] : k \in 0..n}

SignPool ==
  {SignDetection(MMSS(0, 5), "g", 30), SignDetection(MMSS(0, 5), "g", 50),
   SignDetection(MMSS(0, 12), "g", 50), SignDetection(MMSS(20, 0), "g", 50)}

SegmentPool ==
  {TranscriptSegment(ts, "t") :
     ts \in {MMSS(0, 5), MMSS(0, 50), MMSS(1, 0), MMSS(9, 59), MMSS(100, 0)}}

TimelineResults ==
  {Null} \cup
  {AnalysisResult(sg, tr) :
     sg \in SeqsUpTo(SignPool, MaxSigns),
     tr \in SeqsUpTo(SegmentPool, MaxTranscript)}

TimelineThresholds == {0, 50, 100}

InitTimeline ==
  /\ file = 1
  /\ analyzing = FALSE
  /\ result \in TimelineResults
  /\ chatHistory = <<>>
  /\ chatInput = <<>>
  /\ confidenceThreshold = DefaultThreshold
  /\ error = NoError
  /\ storedKey = NoItem
  /\ customApiKey = ""
  /\ envKey = "envkey"
  /\ tasks = <<>>
  /\ requests = 1

NextTimeline == \E t \in TimelineThresholds : SetConfidenceThreshold(t)

SpecTimeline == InitTimeline /\ [][NextTimeline]_vars

\* the current values of the two derived lists
filteredSigns == FilteredSigns(result, confidenceThreshold)

timelineItems == TimelineItems(result, confidenceThreshold)

\* the indices of the stored signs whose confidence reaches the threshold
KeptIndices ==
  {i \in 1..Len(SignsOf(result)) :
     SignsOf(result)[i].confidence >= confidenceThreshold}

\* the j-th smallest element of a set of numbers
Nth(K, j) == CHOOSE i \in K : Cardinality({k \in K : k < i}) = j - 1

\* C1: the filtered sign list is exactly the stored signs whose confidence
\* is at least the threshold, in their original order (a confidence equal
\* to the threshold is kept), and it is empty when no result is stored.
C1_FilterExact ==
  /\ Len(filteredSigns) = Cardinality(KeptIndices)
  /\ \A j \in 1..Len(filteredSigns) :
       filteredSigns[j] = SignsOf(result)[Nth(KeptIndices, j)]
  /\ result = Null => filteredSigns = <<>>

\* a sign whose confidence equals the threshold is stored next to one below
\* it, and exactly the former is shown
C1_Witness ==
  /\ result # Null
  /\ \E i \in 1..Len(SignsOf(result)) :
       SignsOf(result)[i].confidence = confidenceThreshold
  /\ \E i \in 1..Len(SignsOf(result)) :
       SignsOf(result)[i].confidence < confidenceThreshold
  /\ Len(filteredSigns) = 1
  /\ confidenceThreshold # DefaultThreshold
  /\ filteredSigns[1].confidence = confidenceThreshold

\* how often x occurs in the sequence seq
Count(seq, x) == Cardinality({i \in 1..Len(seq) : seq[i] = x})

\* how often x is due in the timeline: once per equal transcript segment and
\* once per equal sign that reaches the threshold
Due(x) ==
  Cardinality({i \in 1..Len(TranscriptOf(result)) :
                 TagTranscript(TranscriptOf(result)[i]) = x})
  + Cardinality({i \in KeptIndices : TagSign(SignsOf(result)[i]) = x})

\* C2: the timeline is a permutation of the transcript segments tagged
\* 'transcript' plus the retained signs tagged 'sign': nothing is dropped or
\* duplicated, its length is |filtered signs| + |transcript|, and every
\* transcript segment is in it whatever the threshold.
C2_MergePermutation ==
  /\ Len(timelineItems) = Len(filteredSigns) + Len(TranscriptOf(result))
  /\ \A i \in 1..Len(timelineItems) :
       Count(timelineItems, timelineItems[i]) = Due(timelineItems[i])
  /\ \A i \in 1..Len(TranscriptOf(result)) :
       Count(timelineItems, TagTranscript(TranscriptOf(result)[i]))
         = Count(TranscriptOf(result), TranscriptOf(result)[i])
  /\ Cardinality({i \in 1..Len(timelineItems) :
                    timelineItems[i].type = "transcript"})
       = Len(TranscriptOf(result))

\* the threshold removes a sign and keeps one, next to two equal segments
C2_Witness ==
  /\ Len(SignsOf(result)) = 2
  /\ Len(filteredSigns) = 1
  /\ Len(TranscriptOf(result)) = 2
  /\ TranscriptOf(result)[1] = TranscriptOf(result)[2]
  /\ Len(timelineItems) = 3

\* C3: the timeline is ascending by timestamp under the comparison of
\* strings: no item's timestamp is greater than its successor's.
C3_SortedLexicographic ==
  \A i \in 1..(Len(timelineItems) - 1) :
    ~StrGt(timelineItems[i].timestamp, timelineItems[i + 1].timestamp)

\* a sign and a segment share a timestamp, and an item stored later comes
\* first in the timeline
C3_Witness ==
  /\ Len(timelineItems) >= 3
  /\ \E i \in 1..(Len(timelineItems) - 1) :
       /\ timelineItems[i].timestamp = timelineItems[i + 1].timestamp
       /\ timelineItems[i].type # timelineItems[i + 1].type
  /\ Len(TranscriptOf(result)) = 2
  /\ StrGt(TranscriptOf(result)[1].timestamp,
           TranscriptOf(result)[2].timestamp)

\* the number a sequence of digit code units denotes
RECURSIVE Number(_)
Number(digits) ==
  IF digits = <<>> THEN 0
  ELSE 10 * Number(DropLast(digits, 1)) + (digits[Len(digits)] - DigitCode(0))

ColonAt(ts) == CHOOSE i \in 1..Len(ts) : ts[i] = ColonCode

MinutesOf(ts) == Number(SubSeq(ts, 1, ColonAt(ts) - 1))

\* the numeric offset of an MM:SS timestamp, in seconds
SecondsOf(ts) ==
  60 * MinutesOf(ts) + Number(SubSeq(ts, ColonAt(ts) + 1, Len(ts)))

\* C4: while every timestamp of the timeline is a zero-padded MM:SS text
\* with fewer than 100 minutes, the timeline is ascending in numeric
\* seconds; with 100 minutes or more it is not: "100:00" comes before
\* "20:00".
C4_LexicographicVsNumeric ==
  /\ (\A i \in 1..Len(timelineItems) :
        MinutesOf(timelineItems[i].timestamp) < 100)
     => \A i \in 1..(Len(timelineItems) - 1) :
          SecondsOf(timelineItems[i].timestamp)
            <= SecondsOf(timelineItems[i + 1].timestamp)
  /\ \A i, j \in 1..Len(timelineItems) :
       /\ timelineItems[i].timestamp = MMSS(100, 0)
       /\ timelineItems[j].timestamp = MMSS(20, 0)
       => i < j

\* "100:00" is shown before "20:00"
C4_Witness ==
  /\ Len(timelineItems) = 3
  /\ timelineItems[1].timestamp = MMSS(0, 5)
  /\ timelineItems[2].timestamp = MMSS(100, 0)
  /\ timelineItems[3].timestamp = MMSS(20, 0)
  /\ confidenceThreshold = 50

(***************************************************************************)
(* The analysis path alone: file selection, key management, the slider and *)
(* handleAnalyze with its completions, the model answering with any of a   *)
(* wide set of texts: every body bare or wrapped in a fence, with or       *)
(* without the json annotation, the newlines and surrounding white space.  *)
(***************************************************************************)
FenceLeads == {<<>>, <<"\n">>, JsonTag, JsonTag \o <<"\n">>}

FenceTrails == {<<>>, <<"\n">>}

Paddings == {<<>>, <<" ", "\n">>}

\* the fenced forms of a body
FencedTexts(body) ==
  {pad \o Fenced(lead, body, trail) \o pad :
     lead \in FenceLeads, trail \in FenceTrails, pad \in Paddings}

\* the unfenced forms of a body
BareTexts(body) == {pad \o body \o pad : pad \in Paddings}

\* texts that are no JSON even when freed of a fence
MalformedTexts ==
  {Garbage, Fenced(JsonTag \o <<"\n">>, Garbage, <<"\n">>),
   <<"E2E">> \o Fence, Fence, <<" ">>}

\* every text considered as an answer to an analysis request
WideAnalysisTexts ==
  UNION {FencedTexts(<<a>>) \cup BareTexts(<<a>>) : a \in AtomNames}
  \cup MalformedTexts \cup {<<>>, Fence \o <<"E2E">>}

\* what the model answers in SpecAnalysis: nothing, a malformed text, every
\* body bare, every body in the usual fence, and a fence without the
\* annotation and the newlines. The tie result is answered in a fence only,
\* so that a state which holds it shows that a fence was stripped.
AnswerTexts ==
  {<<>>, Fence \o <<"E2E">>} \cup MalformedTexts
  \cup {<<a>> : a \in AtomNames \ {"TIE"}}
  \cup {Fenced(JsonTag \o <<"\n">>, <<a>>, <<"\n">>) : a \in AtomNames}
  \cup {<<" ">> \o Fenced(<<>>, <<"TIE">>, <<>>) \o <<"\n">>}

NextAnalysis ==
  \/ \E k \in Keys : HandleSaveKey(k)
  \/ HandleClearKey
  \/ HandleFileUpload
  \/ \E t \in WideThresholds : SetConfidenceThreshold(t)
  \/ HandleAnalyze
  \/ \E i \in 1..Len(tasks) : EncodeDone(i)
  \/ \E i \in 1..Len(tasks) : EncodeFail(i)
  \/ \E i \in 1..Len(tasks) : \E msg \in WideTransportMessages : CallFail(i, msg)
  \/ \E i \in 1..Len(tasks) : \E text \in AnswerTexts :
       AnalyzeResponse(i, text)

SpecAnalysis == Init /\ [][NextAnalysis]_vars

(***************************************************************************)
(* Claims about the analysis path, checked in SpecAnalysis.                *)
(***************************************************************************)
E2ESign == SignDetection(MMSS(0, 10), "Wave", 90)

E2ESegment == TranscriptSegment(MMSS(0, 5), "Hi")

\* C5: once the model's answer with one sign ("00:10", confidence 0.9) and
\* one transcript segment ("00:05") is stored, a threshold of 0.95 leaves
\* the transcript entry alone in the timeline and a threshold of 0.5 shows
\* both, the transcript entry first; a change of the threshold leaves the
\* stored result as it is.
C5_EndToEnd ==
  [][/\ (result' = E2EResult /\ confidenceThreshold' = 95)
          => timelineItems' = <<TagTranscript(E2ESegment)>>
     /\ (result' = E2EResult /\ confidenceThreshold' = 50)
          => timelineItems' = <<TagTranscript(E2ESegment), TagSign(E2ESign)>>
     /\ confidenceThreshold' # confidenceThreshold => result' = result]_vars

\* the scenario's last state: the answer is stored for the selected file,
\* the threshold is 0.5 and both entries are shown
C5_Witness ==
  /\ file # NoFile
  /\ requests >= 1
  /\ result = E2EResult
  /\ confidenceThreshold = 50
  /\ Len(timelineItems) = 2
  /\ timelineItems[1].type = "transcript"
  /\ timelineItems[2].type = "sign"

\* C6: when neither an override nor an environment credential is there, a
\* click on Analyze ends with the missing-key banner and the in-progress
\* flag reset, without starting the encoding and without a request: no
\* invocation is left suspended and the count of requests is unchanged.
C6_MissingCredentialShortCircuits ==
  [][(HandleAnalyze /\ EffectiveKey(customApiKey, envKey) = "")
       => /\ requests' = requests
          /\ tasks' = tasks
          /\ error' = MissingKeyMsg
          /\ analyzing' = FALSE]_vars

\* the state after such a click, before any request was ever issued
C6_Witness ==
  /\ file # NoFile
  /\ EffectiveKey(customApiKey, envKey) = ""
  /\ error = MissingKeyMsg
  /\ ~analyzing
  /\ tasks = <<>>
  /\ requests = 0

\* the text is not a JSON text once trimmed and freed of its fences
Unparseable(text) ==
  \A a \in AtomNames : Trim(CleanText(text)) # <<a>>

\* the banners an analysis shows for a failed request
TransportBanners == {BannerFor(msg) : msg \in WideTransportMessages}

\* C7: an analysis response whose text is not parseable JSON after fence
\* stripping ends the analysis with the malformed-result banner, which no
\* transport failure shows; the handler finishes (the in-progress flag is
\* reset, the invocation is over) and the stored result is left as it was.
C7_MalformedResult ==
  [][\A i \in 1..Len(tasks) : \A text \in AnswerTexts :
       (tasks' # tasks /\ text # <<>> /\ Unparseable(text)
          /\ AnalyzeResponse(i, text))
         => /\ error' = MalformedMsg
            /\ MalformedMsg \notin TransportBanners
            /\ result' = result
            /\ analyzing' = FALSE
            /\ Len(tasks') = Len(tasks) - 1]_vars

\* a stored result has survived a later analysis with a malformed response
C7_Witness ==
  /\ error = MalformedMsg
  /\ result = E2EResult
  /\ ~analyzing
  /\ tasks = <<>>
  /\ requests = 2

\* C8: a response that wraps a JSON text in a leading fence (with or without
\* the json annotation, with or without a newline after it) and a trailing
\* fence (with or without a newline before it), with white space around,
\* is handled exactly as the bare JSON text is: whatever step the handler
\* takes on the one it takes on the other, so the same result is stored;
\* a bare text with white space around is handled as the text itself.
C8_FenceUnwrapping ==
  [][\A i \in 1..Len(tasks) :
       (tasks[i].pc = "calling" /\ tasks' = Remove(tasks, i))
         => \A a \in AtomNames :
              \A text \in FencedTexts(<<a>>) \cup BareTexts(<<a>>) :
                AnalyzeResponse(i, text) <=> AnalyzeResponse(i, <<a>>)]_vars

\* the tie result, which the model answers in a fence only, is stored
C8_Witness ==
  /\ result = TieResult
  /\ error = NoError
  /\ ~analyzing
  /\ requests >= 1

\* C9: the stored result is either absent or an object with a signs list, a
\* transcript list and a context, whatever text the model answers.
C9_ResultAtomic ==
  result = Null \/ (result.t = "object" /\ result.has = AllFields)

(***************************************************************************)
(* Chat turns taken one after the other on a selected file: a turn is      *)
(* submitted when no turn is outstanding, and the file stays selected      *)
(* while a turn is outstanding.  Analyses run alongside as they like.      *)
(***************************************************************************)
NextSequential ==
  \/ \E k \in Keys : HandleSaveKey(k)
  \/ HandleClearKey
  \/ NumChat = 0 /\ HandleFileUpload
  \/ \E text \in ChatInputs : SetChatInput(text)
  \/ HandleAnalyze
  \/ \E q \in SuggestedQuestions \cup {<<>>} :
       NumChat = 0 /\ HandleSendMessage(q)
  \/ \E i \in 1..Len(tasks) : EncodeDone(i)
  \/ \E i \in 1..Len(tasks) : EncodeFail(i)
  \/ \E i \in 1..Len(tasks) : \E msg \in TransportMessages : CallFail(i, msg)
  \/ \E i \in 1..Len(tasks) : \E text \in AnalysisTexts :
       AnalyzeResponse(i, text)
  \/ \E i \in 1..Len(tasks) : \E text \in ChatTexts : ChatResponse(i, text)

SpecSequential == Init /\ [][NextSequential]_vars

\* the texts of the in-band error messages
ChatErrorTexts == {ChatQuotaText, ChatFailedText}

\* the log holds user and model messages in turn, the user's first
Alternates(log) ==
  \A k \in 1..Len(log) :
    log[k].role = (IF k % 2 = 1 THEN "user" ELSE "model")

\* a chat turn ends in failure in this step
ChatFails(i) ==
  /\ tasks[i].kind = "chat"
  /\ EncodeFail(i) \/ \E msg \in TransportMessages : CallFail(i, msg)

\* C10: sequential chat turns on a selected file leave the log as user1,
\* model1, user2, model2, ...: user and model messages in turn, one pair
\* per completed turn and the user's message alone while the turn is
\* outstanding; a turn that fails appends one model-role error message and
\* leaves the entries before it as they were.
C10_SequentialTurns ==
  /\ [](Alternates(chatHistory) /\ Len(chatHistory) % 2 = NumChat)
  /\ [][\A i \in 1..Len(tasks) :
          ChatFails(i) =>
            /\ Len(chatHistory') = Len(chatHistory) + 1
            /\ SubSeq(chatHistory', 1, Len(chatHistory)) = chatHistory
            /\ chatHistory'[Len(chatHistory')].role = "model"
            /\ chatHistory'[Len(chatHistory')].text \in ChatErrorTexts]_vars

\* two turns are over: the first was answered, the second failed
C10_Witness ==
  /\ Len(chatHistory) = 4
  /\ chatHistory[1].role = "user"
  /\ chatHistory[2] = ChatMessage("model", <<"answer">>)
  /\ chatHistory[3].role = "user"
  /\ chatHistory[4] = ChatMessage("model", ChatFailedText)
  /\ requests = 2
  /\ tasks = <<>>

(***************************************************************************)
(* The chat panel next to the analysis, with every interleaving the page   *)
(* allows: the chat input accepts Enter while earlier turns and an         *)
(* analysis are outstanding, and the file input is always there.  The key  *)
(* is the stored or the environment's one; calls fail for the quota,       *)
(* encodings fail without a message.                                       *)
(***************************************************************************)
\* what the user types in this specification
TypedInputs == { <<" ">>, <<"why?">> }

QuotaMessages == { <<"got", "status:", "429">> }

ShortAnalysisTexts == { <<"E2E">>, Garbage }

NextChat ==
  \/ HandleFileUpload
  \/ \E text \in TypedInputs : SetChatInput(text)
  \/ HandleAnalyze
  \/ \E q \in SuggestedQuestions \cup {<<>>} : HandleSendMessage(q)
  \/ \E i \in 1..Len(tasks) : EncodeDone(i)
  \/ \E i \in 1..Len(tasks) : EncodeFail(i)
  \/ \E i \in 1..Len(tasks) : \E msg \in QuotaMessages : CallFail(i, msg)
  \/ \E i \in 1..Len(tasks) : \E text \in ShortAnalysisTexts :
       AnalyzeResponse(i, text)
  \/ \E i \in 1..Len(tasks) : ChatResponse(i, <<"answer">>)

SpecChat == Init /\ [][NextChat]_vars

\* the text an accepted call of handleSendMessage(q) sends
TextToSend(q) == IF q # <<>> THEN q ELSE chatInput

\* C11: an accepted chat turn appends the user's message in the step that
\* accepts it, before any request is issued (with no credential the error
\* message follows it in the same step, after it); a turn that fails later
\* appends exactly one model-role message with an error text, keeps every
\* earlier entry, the user's among them, and leaves the analysis banner as
\* it was; the invocation is over afterwards.
C11_ChatFailureInBand ==
  [][/\ \A q \in SuggestedQuestions \cup {<<>>} :
          HandleSendMessage(q) =>
            /\ Len(chatHistory') > Len(chatHistory)
            /\ SubSeq(chatHistory', 1, Len(chatHistory) + 1)
                 = Append(chatHistory, ChatMessage("user", TextToSend(q)))
            /\ requests' = requests
            /\ error' = error
            /\ EffectiveKey(customApiKey, envKey) = "" =>
                 /\ chatHistory' =
                      Append(Append(chatHistory,
                                    ChatMessage("user", TextToSend(q))),
                             ChatMessage("model", ChatFailedText))
                 /\ tasks' = tasks
            /\ EffectiveKey(customApiKey, envKey) # "" =>
                 Len(chatHistory') = Len(chatHistory) + 1
     /\ \A i \in 1..Len(tasks) :
          ChatFails(i) =>
            /\ chatHistory' \in
                 {Append(chatHistory, ChatMessage("model", t)) :
                    t \in ChatErrorTexts}
            /\ error' = error
            /\ tasks' = Remove(tasks, i)]_vars

\* a turn whose request met the quota and, the key cleared, a turn without
\* a credential have both ended in the log, and no banner is shown
C11_Witness ==
  /\ Len(chatHistory) = 4
  /\ chatHistory[1].role = "user"
  /\ chatHistory[2] = ChatMessage("model", ChatQuotaText)
  /\ chatHistory[3] = ChatMessage("user", <<"why?">>)
  /\ chatHistory[4] = ChatMessage("model", ChatFailedText)
  /\ EffectiveKey(customApiKey, envKey) = ""
  /\ requests = 1
  /\ error = NoError
  /\ tasks = <<>>

\* the invocation of handleSendMessage at tasks[i] takes a step: its
\* encoding resolves or rejects, or its request resolves or rejects
ChatTurnStep(i) ==
  /\ tasks[i].kind = "chat"
  /\ \/ EncodeDone(i)
     \/ EncodeFail(i)
     \/ \E msg \in TransportMessages : CallFail(i, msg)
     \/ \E text \in ChatTexts : ChatResponse(i, text)

\* seq continues the sequence old
IsPrefix(old, seq) ==
  Len(old) <= Len(seq) /\ SubSeq(seq, 1, Len(old)) = old

\* C12: no step of a chat turn, from its submission to its success or
\* failure, changes the stored result, the analysis banner, the in-progress
\* flag, the selected file or the threshold; it only appends to the log and
\* may clear the chat input.
C12_ChatFrame ==
  [][((\E q \in SuggestedQuestions \cup {<<>>} : HandleSendMessage(q))
       \/ \E i \in 1..Len(tasks) : ChatTurnStep(i))
     => /\ UNCHANGED <<result, error, analyzing, file, confidenceThreshold>>
        /\ IsPrefix(chatHistory, chatHistory')
        /\ chatInput' \in {chatInput, <<>>}]_vars

\* a turn was submitted and its request issued while an analysis started
\* before it is still in progress
C12_Witness ==
  /\ Len(tasks) = 2
  /\ tasks[1].kind = "analyze"
  /\ tasks[2].kind = "chat"
  /\ tasks[2].pc = "calling"
  /\ analyzing
  /\ chatHistory = <<ChatMessage("user", <<"why?">>)>>
  /\ chatInput = <<>>
  /\ result = Null

\* C13: the log is append-only: a step that selects no new file leaves the
\* old log as a prefix of the new one, and the step that selects a new file
\* empties the log and clears the result and the banner with it.
C13_LogAppendOnly ==
  [][/\ file' = file => IsPrefix(chatHistory, chatHistory')
     /\ file' # file =>
          /\ chatHistory' = <<>>
          /\ result' = Null
          /\ error' = NoError]_vars

\* a second file was selected over a log that held the question of a turn
\* still outstanding, and the log is empty
C13_Witness ==
  /\ file = 2
  /\ chatHistory = <<>>
  /\ result = Null
  /\ error = NoError
  /\ \E i \in 1..Len(tasks) :
       /\ tasks[i].kind = "chat"
       /\ tasks[i].file = 1
       /\ tasks[i].userMsg = <<"why?">>

(***************************************************************************)
(* The analysis banner (lines 458-472).                                    *)
(***************************************************************************)
\* the banner is rendered while error is set
ShowsBanner(err) == err # NoError

\* the Set Key button inside the banner: error.includes('Quota')
ShowsSetKey(err) == ShowsBanner(err) /\ Includes(err, "Quota")

\* C14: the Set Key action is shown in the banner exactly when the banner
\* is the Quota Exceeded one, that is when the failure's description held
\* '429' or 'quota'; every other failure is shown without it.
C14_SetKeyOnlyForQuota == ShowsSetKey(error) <=> error = QuotaBanner

\* C15: an invocation that goes on to issue a request holds a client built,
\* when the handler is entered, with the override if that is not empty and
\* with the environment's key otherwise, never with an empty key; the
\* override in memory always equals what is stored under the key
\* 'gemini_api_key' (empty when nothing is stored); Clear Key leaves the
\* override empty and nothing stored, so that invocations entered after it
\* use the environment's key.
C15_CredentialPriority ==
  /\ [](/\ customApiKey = (IF storedKey.present THEN storedKey.value ELSE "")
        /\ \A i \in 1..Len(tasks) : tasks[i].apiKey # "")
  /\ [][/\ Len(tasks') = Len(tasks) + 1 =>
             tasks'[Len(tasks')].apiKey =
               (IF customApiKey # "" THEN customApiKey ELSE envKey)
        /\ HandleClearKey =>
             /\ customApiKey' = ""
             /\ ~storedKey'.present
        /\ \A i \in 1..Len(tasks) :
             (Len(tasks') = Len(tasks) /\ tasks'[i] # tasks[i]) =>
               tasks'[i].apiKey = tasks[i].apiKey]_vars

\* an analysis was started with the override, the key was cleared, and the
\* question asked next goes out with the environment's key
C15_Witness ==
  /\ Len(tasks) = 2
  /\ tasks[1].kind = "analyze"
  /\ tasks[1].apiKey = "userkey"
  /\ tasks[2].kind = "chat"
  /\ tasks[2].apiKey = "envkey"
  /\ tasks[2].pc = "calling"
  /\ customApiKey = ""
  /\ storedKey = NoItem

\* C16: the log is in call order: the user's message of a turn is followed
\* by that turn's reply before the next turn's message, so no two messages
\* of one role are neighbours and the first is a user's, in every
\* interleaving the page allows.  It is stated for the first file selected,
\* where every turn was submitted on the file shown.
C16_StrictCallOrder ==
  file = 1 =>
    /\ Len(chatHistory) > 0 => chatHistory[1].role = "user"
    /\ \A k \in 1..(Len(chatHistory) - 1) :
         chatHistory[k].role # chatHistory[k + 1].role

\* the invocations whose request is outstanding
Calling == {i \in 1..Len(tasks) : tasks[i].pc = "calling"}

\* C17: at most one request to the model, of an analysis or of a chat turn,
\* is outstanding in any reachable state.
C17_OneAtATime == Cardinality(Calling) <= 1

\* C19: the completion of an analysis or chat turn that was started on a
\* file other than the one now selected stores no result, sets no banner
\* and appends nothing to the log.
C19_PertainsToSelectedFile ==
  [][\A i \in 1..Len(tasks) :
       (tasks' = Remove(tasks, i) /\ tasks[i].file # file)
         => UNCHANGED <<result, error, chatHistory>>]_vars

(***************************************************************************)
(* The analysis path in which every encoding and every call to the model   *)
(* settles: a FileReader ends in load or error, a request in a response or *)
(* a rejection.                                                            *)
(***************************************************************************)
EncodingSettles == \E i \in 1..Len(tasks) : EncodeDone(i) \/ EncodeFail(i)

CallSettles ==
  \E i \in 1..Len(tasks) :
    \/ \E msg \in WideTransportMessages : CallFail(i, msg)
    \/ \E text \in AnswerTexts : AnalyzeResponse(i, text)

SpecAnalysisFair ==
  SpecAnalysis /\ WF_vars(EncodingSettles) /\ WF_vars(CallSettles)

\* the invocations of handleAnalyze that have not returned
Analyses == {i \in 1..Len(tasks) : tasks[i].kind = "analyze"}

\* C18: the Analyze button is disabled (analyzing) exactly while an
\* invocation of handleAnalyze is outstanding, of which there is at most
\* one; while no file is selected no analysis has had any effect; and when
\* encodings and calls settle, a disabled button is enabled again.
C18_AnalyzeControl ==
  /\ [](/\ analyzing <=> Analyses # {}
        /\ Cardinality(Analyses) <= 1
        /\ file = NoFile =>
             /\ tasks = <<>>
             /\ requests = 0
             /\ result = Null
             /\ error = NoError)
  /\ (analyzing ~> ~analyzing)

\* a first analysis stored its result, a second met the quota, and the
\* button is enabled again
C18_Witness ==
  /\ ~analyzing
  /\ Analyses = {}
  /\ requests = 2
  /\ result = E2EResult
  /\ error = QuotaBanner
  /\ file = 1

\* the banners an analysis can end with
AnalysisBanners ==
  {MissingKeyMsg, EmptyResponseMsg, MalformedMsg, FailedMsg}
    \cup TransportBanners

\* every answer text and failure message the specifications draw from
AllAnswerTexts == AnswerTexts \cup AnalysisTexts

AllTransportMessages == WideTransportMessages \cup TransportMessages

\* the analysis at tasks[i] ends in an error in this step
AnalysisFails(i) ==
  \/ EncodeFail(i)
  \/ \E msg \in AllTransportMessages : CallFail(i, msg)
  \/ \E text \in AllAnswerTexts :
       (text = <<>> \/ Unparseable(text)) /\ AnalyzeResponse(i, text)

\* the analysis at tasks[i] ends with the value of the answer text
AnalysisSucceedsWith(i, text) ==
  /\ text # <<>>
  /\ ~Unparseable(text)
  /\ AnalyzeResponse(i, text)

\* C20: an analysis that ends in an error (no credential, no response text,
\* a malformed result, the quota or another failed request or encoding)
\* leaves the stored result and the log as they were and sets one banner;
\* an analysis that succeeds stores the value of the answer in place of the
\* result, with no banner shown, and leaves the log as it was.
C20_ResultOnlyOnSuccess ==
  [][/\ (customApiKey = "" /\ envKey = "" /\ HandleAnalyze) =>
          /\ result' = result
          /\ chatHistory' = chatHistory
          /\ error' = MissingKeyMsg
     /\ \A i \in 1..Len(tasks) :
          (tasks' = Remove(tasks, i) /\ tasks[i].kind = "analyze") =>
            /\ chatHistory' = chatHistory
            /\ IF AnalysisFails(i)
               THEN /\ result' = result
                    /\ error' # NoError
                    /\ error' \in AnalysisBanners
               ELSE /\ error' = NoError
                    /\ error = NoError
                    /\ \E text \in AllAnswerTexts :
                         /\ AnalysisSucceedsWith(i, text)
                         /\ \E a \in AtomNames :
                              /\ Trim(CleanText(text)) = <<a>>
                              /\ result' = AtomValue(a)]_vars

\* a stored result and a log have survived a later analysis whose response
\* had no text
C20_Witness ==
  /\ result = E2EResult
  /\ error = EmptyResponseMsg
  /\ ~analyzing
  /\ requests = 2
  /\ chatHistory =
       <<ChatMessage("user", <<"mood?">>),
         ChatMessage("model", ChatFailedText)>>
  /\ tasks = <<>>

====
